---- MODULE Spec2Model ----
(***************************************************************************)
(* NSW tidal information service: the location validator                   *)
(* (utils/location_validator.py), the tidal data source                    *)
(* (utils/tidal_api.py), the persistence layer (utils/db_manager.py) and   *)
(* the script run that ties them together (app.py).                        *)
(*                                                                         *)
(* Three specifications share the variables and the actions:               *)
(*   Spec     the two functions called on their own                        *)
(*   AppSpec  script runs of app.py, with the two saves                    *)
(*   SimSpec  the simulator at every minute of a day                       *)
(*                                                                         *)
(* Number representation.  The program computes with Python floats; here   *)
(* every quantity is a scaled integer that fits a 32-bit int:              *)
(*   degrees      -> micro-degrees            (-33.865143 -> -33865143)    *)
(*   radians      -> micro-radians                                         *)
(*   sines, asin  -> units of 1/Scale, Scale = 2 * r * 10 = 127420, so     *)
(*                   that 2 * asin * r comes out in units of 100 m         *)
(*   cosines      -> units of 1/10000                                      *)
(*   distances    -> hectometres (100 m);  20 km = 200 hm                  *)
(*   clock        -> seconds since 00:00:00 of day 0                       *)
(*   tidal phase  -> tenths of a minute (6 s); period 12.42 h = 7452       *)
(*   amplitudes   -> 1e-5 m; reported heights -> centimetres (round(x,2))  *)
(* sin, cos and asin are truncated Taylor series.                          *)
(***************************************************************************)
EXTENDS Integers, Sequences, FiniteSets

----------------------------------------------------------------------------
(* utils/location_validator.py : constants *)

NSW_MIN_LAT == -37500000
NSW_MAX_LAT == -28000000
NSW_MIN_LON == 140999922
NSW_MAX_LON == 153638747

COASTAL_DISTANCE_KM == 20

NSW_COASTAL_LOCATIONS ==
  << [name |-> "Sydney",         lat |-> -33865143, lon |-> 151209900],
     [name |-> "Newcastle",      lat |-> -32916668, lon |-> 151750000],
     [name |-> "Wollongong",     lat |-> -34425072, lon |-> 150893143],
     [name |-> "Port Macquarie", lat |-> -31433334, lon |-> 152900000],
     [name |-> "Coffs Harbour",  lat |-> -30296665, lon |-> 153114136],
     [name |-> "Byron Bay",      lat |-> -28647980, lon |-> 153618698],
     [name |-> "Batemans Bay",   lat |-> -35708332, lon |-> 150174728],
     [name |-> "Eden",           lat |-> -37063755, lon |-> 149900543],
     [name |-> "Port Stephens",  lat |-> -32716667, lon |-> 152166672],
     [name |-> "Jervis Bay",     lat |-> -35040279, lon |-> 150727844] >>

----------------------------------------------------------------------------
(* Fixed-point arithmetic standing for the float operations of `math` *)

Abs(x) == IF x < 0 THEN -x ELSE x

Sgn(x) == IF x < 0 THEN -1 ELSE IF x > 0 THEN 1 ELSE 0

\* x / 2 on a signed value, truncating toward zero
Half(x) == Sgn(x) * (Abs(x) \div 2)

\* n / d rounded to the nearest integer, n >= 0, d > 0
RoundDiv(n, d) == (n + d \div 2) \div d

RECURSIVE SqrtSearch(_, _, _)
SqrtSearch(n, lo, hi) ==
  IF lo >= hi THEN lo
  ELSE LET mid == (lo + hi + 1) \div 2
       IN  IF mid * mid <= n THEN SqrtSearch(n, mid, hi)
                             ELSE SqrtSearch(n, lo, mid - 1)

\* math.sqrt on a value scaled by Scale^2: the result, to the nearest
\* integer, is scaled by Scale
Sqrt(n) ==
  LET f == SqrtSearch(n, 0, 46340)
  IN  IF n - f * f > f THEN f + 1 ELSE f

\* math.radians: micro-degrees to micro-radians (pi/180 = 0.0174532925)
radians(x) ==
  LET a == Abs(x)
  IN  Sgn(x) * ( RoundDiv((a \div 10000) * 17453, 100)
               + RoundDiv((a % 10000) * 17453, 1000000)
               + RoundDiv((a \div 1000) * 2925, 10000000) )

\* the scale of sines and arcsines
Scale == 2 * 6371 * 10

\* micro-radians (>= 0) to units of 1/Scale
ToScale(h) ==
  RoundDiv((h \div 100) * 12742 + RoundDiv((h % 100) * 12742, 100), 1000)

\* math.sin on micro-radians, |h| < 0.36 rad; result in units of 1/Scale
Sin(h) ==
  LET x  == ToScale(Abs(h))
      x2 == RoundDiv(x * x, Scale)
      x3 == RoundDiv(x2 * x, Scale)
      x5 == RoundDiv(x3 * x2, Scale)
  IN  Sgn(h) * (x - RoundDiv(x3, 6) + RoundDiv(x5, 120))

\* math.cos on micro-radians, |x| < pi/2; result in units of 1/10000
Cos(x) ==
  LET m  == Abs(x) \div 100
      x2 == RoundDiv(m * m, 10000)
      x4 == RoundDiv(x2 * x2, 10000)
      x6 == RoundDiv(x4 * x2, 10000)
  IN  10000 - RoundDiv(x2, 2) + RoundDiv(x4, 24) - RoundDiv(x6, 720)

\* math.asin on units of 1/Scale, x < 0.36; result in units of 1/Scale
Asin(x) ==
  LET x2 == RoundDiv(x * x, Scale)
      x3 == RoundDiv(x2 * x, Scale)
      x5 == RoundDiv(x3 * x2, Scale)
  IN  x + RoundDiv(x3, 6) + RoundDiv(3 * x5, 40)

----------------------------------------------------------------------------
(* utils/location_validator.py : haversine_distance, find_distance_to_coast *)

\* great circle distance in hectometres between two points in micro-degrees
haversine_distance(lat1, lon1, lat2, lon2) ==
  LET rlat1 == radians(lat1)
      rlon1 == radians(lon1)
      rlat2 == radians(lat2)
      rlon2 == radians(lon2)
      dlon  == rlon2 - rlon1
      dlat  == rlat2 - rlat1
      s1    == Sin(Half(dlat))
      s2    == Sin(Half(dlon))
      k     == RoundDiv(Cos(rlat1) * Cos(rlat2), 10000)
      q     == s2 * s2
      a     == s1 * s1 + (q \div 10000) * k + RoundDiv((q % 10000) * k, 10000)
      c     == 2 * Asin(Sqrt(a))
      r     == 6371
  IN  RoundDiv(c * r, Scale \div 10)

RECURSIVE Min(_)
Min(s) ==
  IF Len(s) = 1 THEN s[1]
  ELSE LET m == Min(Tail(s)) IN IF s[1] <= m THEN s[1] ELSE m

\* the distance to the first reference point only
find_distance_to_coast_First(latitude, longitude) ==
  haversine_distance(latitude, longitude,
                     NSW_COASTAL_LOCATIONS[1].lat, NSW_COASTAL_LOCATIONS[1].lon)

find_distance_to_coast(latitude, longitude) ==
  LET distances ==
        [i \in 1..Len(NSW_COASTAL_LOCATIONS) |->
           haversine_distance(latitude, longitude,
                              NSW_COASTAL_LOCATIONS[i].lat,
                              NSW_COASTAL_LOCATIONS[i].lon)]
  IN  Min(distances)

----------------------------------------------------------------------------
(* The reverse geocoding service (geopy Nominatim) as the validator sees it *)

\* dict.get(key, default)
Get(d, key, default) == IF key \in DOMAIN d THEN d[key] ELSE default

\* the region tokens that occur in the lower-cased text of a word: Python's
\* `in` is a substring test, so "Brunswick" contains "nsw"
TokensIn(w) ==
  CASE w = "New South Wales" -> {"new south wales"}
    [] w = "NSW"             -> {"nsw"}
    [] w = "Brunswick"       -> {"nsw"}
    [] OTHER                 -> {}

\* the region tokens found in str(address).lower(): the text of a dict holds
\* its keys and its values
address_str(address) ==
  UNION ({TokensIn(address[key]) : key \in DOMAIN address}
         \cup {TokensIn(key) : key \in DOMAIN address})

\* addresses the service may return (location.raw["address"])
Addresses ==
  { [state |-> "New South Wales", state_district |-> "Sydney",
     county |-> "Cumberland", city |-> "Sydney"],
    [state |-> "NSW", county |-> "Camden", town |-> "Kiama"],
    [state |-> "New South Wales", village |-> "Tilba"],
    [state |-> "Victoria", county |-> "Towong", village |-> "Corryong"],
    [state |-> "Victoria", city |-> "Brunswick"],
    [state |-> "Queensland"] }

\* what geolocator.reverse does: it returns a location with an address, a
\* location without one, or None, or it raises one of the two exceptions
\* the validator handles
GeocodeOutcomes ==
  {[kind |-> "address", address |-> a] : a \in Addresses}
  \cup {[kind |-> "no_address"], [kind |-> "None"],
        [kind |-> "GeocoderTimedOut"], [kind |-> "GeocoderUnavailable"]}

\* the value of `geo` while no reverse geocoding call has returned
NoGeocode == [kind |-> "not_called"]

----------------------------------------------------------------------------
(* Clock readings and their formatting (datetime) *)

\* datetime.hour, datetime.minute and the date of a clock reading in seconds
Hour(t) == (t % 86400) \div 3600

Minute(t) == (t % 3600) \div 60

Date(t) == t \div 86400

\* strftime('%H:%M %d-%b'): hour, minute, day and month; the seconds and
\* the year are dropped (years of 365 days)
strftime_HM_dB(t) == [H |-> Hour(t), M |-> Minute(t), dB |-> Date(t) % 365]

\* strftime('%Y-%m-%d %H:%M'): the seconds are dropped
strftime_Ymd_HM(t) == [Ymd |-> Date(t), H |-> Hour(t), M |-> Minute(t)]

\* n / d rounded to the nearest integer for a numerator of either sign
RoundDivSigned(n, d) == Sgn(n) * RoundDiv(Abs(n), d)

\* round(x, 2) on a height in 1e-5 m: centimetres
round2(x) == RoundDivSigned(x, 1000)

\* math.sin(normalized_time) for a phase c in [0, period) given in tenths of
\* a minute, normalized_time = (c / period) * 2 * 3.14159; the result is in
\* units of 1/10000
SinCycle(c, period) ==
  LET quarter == period \div 4
      half    == period \div 2
      x  == IF c <= quarter THEN c
            ELSE IF c <= half + quarter THEN Abs(half - c)
            ELSE period - c
      sg == IF c <= half THEN 1 ELSE -1
      a  == RoundDiv(x * 62832, period)
      a2 == RoundDiv(a * a, 10000)
      a3 == RoundDiv(a2 * a, 10000)
      a5 == RoundDiv(a3 * a2, 10000)
      a7 == RoundDiv(RoundDiv(a5, 10) * a2, 1000)
      a9 == RoundDiv(RoundDiv(a7, 10) * a2, 1000)
  IN  sg * (a - RoundDiv(a3, 6) + RoundDiv(a5, 120) - RoundDiv(a7, 5040)
              + RoundDiv(a9, 362880))

----------------------------------------------------------------------------
(* utils/tidal_api.py : generate_simulated_tidal_data *)

\* period = 12.42 hours, in tenths of a minute
period == 7452

\* baseline = 1.5 m, in 1e-5 m
baseline == 150000

\* amplitude = 0.8 + (abs(latitude) % 10) / 50, in 1e-5 m
amplitude(latitude) == 80000 + (Abs(latitude) % 10000000) \div 500

\* (hour + minute / 60) % period, in tenths of a minute
hour_in_cycle(t) == ((Hour(t) * 60 + Minute(t)) * 10) % period

\* the current tide when is_high tests the upper limit only
current_tide_HighBelowOnly(latitude, t) ==
  LET c         == hour_in_cycle(t)
      is_rising == 2 * c < period
      slope     == RoundDivSigned(amplitude(latitude) * (2 * c - period \div 2),
                                  period)
      current_height == IF is_rising THEN baseline - slope
                                     ELSE baseline + slope
      is_high   == 10 * c < 6 * period
  IN  [height    |-> round2(current_height),
       status    |-> IF is_high THEN "Near High"
                     ELSE IF 10 * c > 3 * period /\ 10 * c < 7 * period
                          THEN "Mid" ELSE "Near Low",
       trend     |-> IF is_rising THEN "Rising" ELSE "Falling",
       timestamp |-> strftime_Ymd_HM(t)]

\* the current tide when its height is the sine value of the chart
current_tide_SineHeight(latitude, t) ==
  LET c         == hour_in_cycle(t)
      is_rising == 2 * c < period
      current_height == baseline
                        + RoundDivSigned(amplitude(latitude) * SinCycle(c, period),
                                         10000)
      is_high   == 10 * c > 4 * period /\ 10 * c < 6 * period
  IN  [height    |-> round2(current_height),
       status    |-> IF is_high THEN "Near High"
                     ELSE IF 10 * c > 3 * period /\ 10 * c < 7 * period
                          THEN "Mid" ELSE "Near Low",
       trend     |-> IF is_rising THEN "Rising" ELSE "Falling",
       timestamp |-> strftime_Ymd_HM(t)]

\* lines 156-176: the current tide at clock reading t
current_tide(latitude, t) ==
  LET c         == hour_in_cycle(t)
      is_rising == 2 * c < period
      \* (normalized_time - 3.14159/2) / 3.14159 = (2c - period/2) / period
      slope     == RoundDivSigned(amplitude(latitude) * (2 * c - period \div 2),
                                  period)
      current_height == IF is_rising THEN baseline - slope
                                     ELSE baseline + slope
      is_high   == 10 * c > 4 * period /\ 10 * c < 6 * period
  IN  [height    |-> round2(current_height),
       status    |-> IF is_high THEN "Near High"
                     ELSE IF 10 * c > 3 * period /\ 10 * c < 7 * period
                          THEN "Mid" ELSE "Near Low",
       trend     |-> IF is_rising THEN "Rising" ELSE "Falling",
       timestamp |-> strftime_Ymd_HM(t)]

\* line 182: the time to the next turning point, in tenths of a minute
hours_to_next(t) ==
  LET c == hour_in_cycle(t)
  IN  IF 2 * c < period THEN period \div 2 - c ELSE period - c

\* the type of forecast event i when line 198 tests its first case only
forecast_type_FirstCaseOnly(t, i) ==
  LET is_rising      == 2 * hour_in_cycle(t) < period
      next_tide_type == IF is_rising THEN "Low" ELSE "High"
  IN  IF i = 0 THEN next_tide_type
      ELSE IF i % 2 = 1 /\ next_tide_type = "Low" THEN "High" ELSE "Low"

\* lines 186 and 198: the type of forecast event i (0 is the next one)
forecast_type(t, i) ==
  LET is_rising      == 2 * hour_in_cycle(t) < period
      next_tide_type == IF is_rising THEN "Low" ELSE "High"
  IN  IF i = 0 THEN next_tide_type
      ELSE IF (i % 2 = 1 /\ next_tide_type = "Low")
              \/ (i % 2 = 0 /\ next_tide_type = "High")
           THEN "High" ELSE "Low"

\* the forecast when the later events are a whole period apart
forecast_tides_WholePeriodSteps(latitude, t, count) ==
  LET next_tide_time == t + 6 * hours_to_next(t)
  IN  [j \in 1..count |->
        LET i         == j - 1
            tide_type == forecast_type(t, i)
        IN  [type   |-> tide_type,
             time   |-> strftime_HM_dB(next_tide_time + 6 * period * i),
             height |-> round2(IF tide_type = "High"
                               THEN baseline + amplitude(latitude)
                               ELSE baseline - amplitude(latitude))]]

\* lines 184-205: the forecast, the next turning point and `count - 1`
\* further ones half a period apart (range(1, 4) makes count 4)
forecast_tides(latitude, t, count) ==
  LET next_tide_time == t + 6 * hours_to_next(t)
  IN  [j \in 1..count |->
        LET i         == j - 1
            tide_type == forecast_type(t, i)
        IN  [type   |-> tide_type,
             time   |-> strftime_HM_dB(next_tide_time + 6 * (period \div 2) * i),
             height |-> round2(IF tide_type = "High"
                               THEN baseline + amplitude(latitude)
                               ELSE baseline - amplitude(latitude))]]

\* chart point i with the High and Low tags exchanged
chart_point_TagsExchanged(latitude, t, i) ==
  LET point_time   == t + 60 * 30 * i
      c            == hour_in_cycle(point_time)
      point_height == baseline
                      + RoundDivSigned(amplitude(latitude) * SinCycle(c, period),
                                       10000)
  IN  [time   |-> point_time,
       height |-> round2(point_height),
       type   |-> IF i % 12 = 0
                  THEN IF (i \div 12) % 2 = 0 THEN "Low" ELSE "High"
                  ELSE "Normal"]

\* lines 212-227: chart point i
chart_point(latitude, t, i) ==
  LET point_time   == t + 60 * 30 * i
      c            == hour_in_cycle(point_time)
      point_height == baseline
                      + RoundDivSigned(amplitude(latitude) * SinCycle(c, period),
                                       10000)
  IN  [time   |-> point_time,
       height |-> round2(point_height),
       type   |-> IF i % 12 = 0
                  THEN IF (i \div 12) % 2 = 0 THEN "High" ELSE "Low"
                  ELSE "Normal"]

\* lines 148-233, `now` being the clock reading of line 148
generate_simulated_tidal_data(latitude, longitude, now) ==
  [current    |-> current_tide(latitude, now),
   forecast   |-> forecast_tides(latitude, now, 4),
   chart_data |-> [j \in 1..96 |-> chart_point(latitude, now, j - 1)]]

----------------------------------------------------------------------------
(* The tide provider (api.willyweather.com.au) as get_tidal_data sees it *)

\* Python's None as the value returned by get_tidal_data
None == [None |-> TRUE]

\* the offset of the host's time zone from UTC, in seconds
LocalOffset == 10 * 3600

\* A JSON object is a record and {} is the function with the empty domain;
\* a JSON list is a sequence.  A "dateTime" string is [t, z] when
\* datetime.fromisoformat accepts it (t its wall clock reading in seconds,
\* z whether it ends in "Z") and [text] when it does not.

\* the responses to the station search request
SearchResponses ==
  { [kind |-> "ConnectionError"],
    [kind |-> "HTTPError"],
    [kind |-> "body", text |-> "<html>"],
    [kind |-> "json", json |-> [message |-> "unknown key"]],
    [kind |-> "json", json |-> [location |-> <<>>]],
    [kind |-> "json", json |-> [location |-> << [name |-> "Sydney"] >>]],
    [kind |-> "json", json |-> [location |-> << [id |-> 4950, name |-> "Sydney"] >>]] }

\* the most tide entries the provider lists for the first day
MaxEntries == 5

\* the time of the provider's first tide entry, and the spacing of entries
FirstEntryTime == 10 * 86400 + 2 * 3600

EntrySpacing == 6 * 3600 + 12 * 60

\* a day's "entries" with the given "type" values, in time order
EntriesOf(types, first) ==
  [i \in 1..Len(types) |->
     [type     |-> types[i],
      dateTime |-> [t |-> first + (i - 1) * EntrySpacing, z |-> TRUE],
      height   |-> IF types[i] = "high" THEN 180 ELSE 40]]

\* a day's "points"
PointsOf(first) ==
  << [dateTime |-> [t |-> first + 3600, z |-> TRUE], height |-> 150],
     [dateTime |-> [t |-> first + 3 * 3600, z |-> FALSE], height |-> 110] >>

SecondDay ==
  [entries |-> EntriesOf(<<"low", "high">>, FirstEntryTime + 86400),
   points  |-> PointsOf(FirstEntryTime + 86400)]

\* a well-formed forecast document whose first day has the given entries
TidesDocument(entries) ==
  [forecasts |-> [tides |->
     [current |-> [height |-> 112, isHigh |-> FALSE, rising |-> TRUE],
      days    |-> << [entries |-> entries, points |-> PointsOf(FirstEntryTime)],
                     SecondDay >>]]]

\* forecast documents with something missing or unreadable
OddDocuments ==
  { [message |-> "no forecast"],
    [forecasts |-> [tides |-> [days |-> <<>>]]],
    [forecasts |-> [tides |-> [current |-> [height |-> 95, isHigh |-> TRUE]]]],
    [forecasts |-> [tides |-> [days |-> << [points |-> PointsOf(FirstEntryTime)] >>]]],
    [forecasts |-> [tides |-> [days |-> << [entries |-> <<>>] >>]]],
    [forecasts |-> [tides |-> [days |->
       << [entries |-> << [type |-> "high", height |-> 180] >>] >>]]],
    [forecasts |-> [tides |-> [days |->
       << [entries |-> << [type |-> "low", height |-> 40,
                           dateTime |-> [text |-> "tomorrow"]] >>] >>]]],
    [forecasts |-> [tides |-> [days |->
       << [entries |-> EntriesOf(<<"high">>, FirstEntryTime)],
          [points |-> << [height |-> 100] >>] >>]]],
    [forecasts |-> [tides |-> [days |->
       << [entries |-> << [type |-> "High", height |-> 180,
                           dateTime |-> [t |-> FirstEntryTime, z |-> TRUE]],
                          [height |-> 40,
                           dateTime |-> [t |-> FirstEntryTime + EntrySpacing,
                                         z |-> FALSE]] >>] >>]]] }

\* the responses to the station forecast request
WeatherResponses ==
  { [kind |-> "ConnectionError"],
    [kind |-> "HTTPError"],
    [kind |-> "body", text |-> "<html>"] }
  \cup {[kind |-> "json", json |-> d] : d \in OddDocuments}
  \cup {[kind |-> "json",
         json |-> TidesDocument(EntriesOf(types, FirstEntryTime))] :
          types \in UNION {[1..n -> {"high", "low"}] : n \in 0..MaxEntries}}

\* the value of `search` and `weather` while no response has arrived
NoResponse == [kind |-> "not_requested"]

----------------------------------------------------------------------------
(* utils/tidal_api.py : get_tidal_data *)

\* the credential test inverted
UseSimulation_Inverted(api_key) == api_key # ""

\* `if not API_KEY` of line 30
UseSimulation(api_key) == api_key = ""

\* requests.get, raise_for_status or response.json raises (lines 46-48, 65-67)
RequestRaises(response) == response.kind # "json"

\* lines 50-53 raise: no "location" key, or a first station without "id"
StationLookupRaises(station_data) ==
  \/ "location" \notin DOMAIN station_data
  \/ /\ Len(station_data.location) > 0
     /\ "id" \notin DOMAIN station_data.location[1]

\* datetime.fromisoformat(point.get("dateTime").replace('Z', '+00:00'))
\* raises: the key is missing (None has no replace) or the text is no date
DateTimeRaises(point) ==
  \/ "dateTime" \notin DOMAIN point
  \/ "t" \notin DOMAIN point.dateTime

\* tide_time.astimezone(): the wall clock reading in the host's zone; a
\* reading without offset is taken to be local already
astimezone(dateTime) ==
  IF dateTime.z THEN dateTime.t + LocalOffset ELSE dateTime.t

\* line 70
TidesOf(tides_data) == Get(Get(tides_data, "forecasts", <<>>), "tides", <<>>)

\* the "points" (key = "points") or "entries" of all days, in order
RECURSIVE AllOf(_, _)
AllOf(days, key) ==
  IF Len(days) = 0 THEN <<>>
  ELSE Get(days[1], key, <<>>) \o AllOf(Tail(days), key)

\* lines 81-125 raise: no first day, or an unreadable dateTime
NormaliseRaises(tides_data) ==
  LET days == Get(TidesOf(tides_data), "days", <<>>)
  IN  \/ Len(days) = 0
      \/ \E i \in 1..Len(AllOf(days, "entries")) :
            DateTimeRaises(AllOf(days, "entries")[i])
      \/ \E i \in 1..Len(AllOf(days, "points")) :
            DateTimeRaises(AllOf(days, "points")[i])

\* "High" if point.get("type") == "high" else "Low"
TideType(point) == IF Get(point, "type", "") = "high" THEN "High" ELSE "Low"

\* list.sort(key=time): a stable insertion sort
RECURSIVE InsertByTime(_, _)
InsertByTime(sorted, p) ==
  IF Len(sorted) = 0 THEN <<p>>
  ELSE IF sorted[Len(sorted)].time <= p.time THEN Append(sorted, p)
  ELSE Append(InsertByTime(SubSeq(sorted, 1, Len(sorted) - 1), p),
              sorted[Len(sorted)])

RECURSIVE SortByTime(_)
SortByTime(points) ==
  IF Len(points) = 0 THEN <<>>
  ELSE InsertByTime(SortByTime(SubSeq(points, 1, Len(points) - 1)),
                    points[Len(points)])

\* forecast_tides[:limit]
FirstN(seq, limit) == SubSeq(seq, 1, IF Len(seq) < limit THEN Len(seq) ELSE limit)

\* lines 70-125: the snapshot made of a forecast document that does not
\* raise; `limit` is the 4 of line 123
Normalise(tides_data, clock, limit) ==
  LET tides       == TidesOf(tides_data)
      current     == Get(tides, "current", <<>>)
      days        == Get(tides, "days", <<>>)
      tide_points == Get(days[1], "entries", <<>>)
      forecast    == [i \in 1..Len(tide_points) |->
                        [type   |-> TideType(tide_points[i]),
                         time   |-> strftime_HM_dB(
                                      astimezone(tide_points[i].dateTime)),
                         height |-> Get(tide_points[i], "height", 0)]]
      points      == AllOf(days, "points")
      entries     == AllOf(days, "entries")
      all_points  == [i \in 1..Len(points) |->
                        [time   |-> astimezone(points[i].dateTime),
                         height |-> Get(points[i], "height", 0),
                         type   |-> "Normal"]]
                     \o
                     [i \in 1..Len(entries) |->
                        [time   |-> astimezone(entries[i].dateTime),
                         height |-> Get(entries[i], "height", 0),
                         type   |-> TideType(entries[i])]]
  IN  [current    |-> [height    |-> Get(current, "height", 0),
                       status    |-> IF Get(current, "isHigh", FALSE)
                                     THEN "High" ELSE "Low",
                       trend     |-> IF Get(current, "rising", FALSE)
                                     THEN "Rising" ELSE "Falling",
                       timestamp |-> strftime_Ymd_HM(clock)],
       forecast   |-> FirstN(forecast, limit),
       chart_data |-> SortByTime(all_points)]

\* what get_tidal_data does when only requests' exceptions are handled
ResultAfterWeather_RequestErrorsOnly(response, clock) ==
  IF RequestRaises(response) THEN None
  ELSE IF NormaliseRaises(response.json) THEN [raised |-> "Exception"]
  ELSE Normalise(response.json, clock, 4)

\* lines 65-132: what get_tidal_data returns for a forecast response
ResultAfterWeather(response, clock) ==
  IF RequestRaises(response) \/ NormaliseRaises(response.json)
  THEN None
  ELSE Normalise(response.json, clock, 4)

----------------------------------------------------------------------------
(* Inputs *)

\* coordinates, in micro-degrees, that callers pass
Coordinates ==
  { <<-33865143, 151209900>>,   \* Sydney, a reference point: 0 km
    <<-33685300, 151209900>>,   \* 20.0 km north of Sydney
    <<-33684300, 151209900>>,   \* 20.1 km north of Sydney
    <<-33000000, 146000000>>,   \* inland NSW, 479 km from the coast
    <<-36500000, 146000000>>,   \* inside the box, in Victoria
    <<-37500000, 140999922>>,   \* the south-west corner of the box
    <<-28000000, 153638747>>,   \* the north-east corner of the box
    <<-10000000, 145000000>>,   \* latitude outside, longitude inside
    <<-37500001, 149900543>>,   \* one micro-degree south of the box
    <<-33865143, 153638748>>,   \* one micro-degree east of the box
    <<-33865143, 140999921>>,   \* one micro-degree west of the box
    <<-27999999, 153000000>> }  \* one micro-degree north of the box

\* coordinates, in micro-degrees, for which tidal data is asked
TidalCoordinates ==
  { <<-33865143, 151209900>>,   \* Sydney
    <<-28647980, 153618698>>,   \* Byron Bay
    <<-30000000, 153200000>> }  \* latitude -30: abs(latitude) % 10 = 0

\* the first clock reading, the step between readings in minutes and the
\* number of steps
NowOrigin == 10 * 86400

NowStepMinutes == 37

MaxNowStep == 40

\* clock readings, in seconds, at which get_tidal_data is called
Nows ==
  {NowOrigin + 60 * NowStepMinutes * k + sec : k \in 0..MaxNowStep, sec \in {0, 45}}

\* the seconds that may pass while a provider request is answered
Elapsed == {0, 2}

----------------------------------------------------------------------------
(* State *)

VARIABLES
  pc,        \* position of the single thread of control
  lat,       \* latitude argument of the current call
  lon,       \* longitude argument of the current call
  geo,       \* what the reverse geocoding call of this call returned
  requests,  \* the external requests issued by the current call, in order
  ret,       \* the value returned by the current call
  API_KEY,   \* os.getenv("WILLYWEATHER_API_KEY", "") at import
  now,       \* the clock
  search,    \* the response to the station search of this call
  weather    \* the response to the station forecast request of this call

VARIABLES
  os_environ,      \* which of the names {"API_KEY"} are set in os.environ
  app,             \* app.py: the position and the locals of the script run
  locations,       \* the rows of table locations, in insertion order
  tidal_records,   \* the rows of table tidal_records, in insertion order
  tide_forecasts,  \* the rows of table tide_forecasts, in insertion order
  saves            \* the number of save_location_data calls made so far

\* the variables of the function calls, and those of app.py and the database
callvars == <<pc, lat, lon, geo, requests, ret, API_KEY, now, search, weather>>

dbvars == <<locations, tidal_records, tide_forecasts, saves>>

appvars == <<os_environ, app, locations, tidal_records, tide_forecasts, saves>>

vars == <<pc, lat, lon, geo, requests, ret, API_KEY, now, search, weather,
          os_environ, app, locations, tidal_records, tide_forecasts, saves>>

\* `app` while no script run is in progress
NoRun == [at |-> "none"]

\* `ret` before a call has returned
NoReturn == [fn |-> "none"]

\* the placeholder "Unknown" of location_info["coast_distance"]
UnknownDistance == -1

Init ==
  /\ pc = "idle"
  /\ lat = 0
  /\ lon = 0
  /\ geo = NoGeocode
  /\ requests = <<>>
  /\ ret = NoReturn
  /\ API_KEY \in {"", "key"}
  /\ now = NowOrigin
  /\ search = NoResponse
  /\ weather = NoResponse
  /\ os_environ \in SUBSET {"API_KEY"}
  /\ app = NoRun
  /\ locations = <<>>
  /\ tidal_records = <<>>
  /\ tide_forecasts = <<>>
  /\ saves = 0

----------------------------------------------------------------------------
(* utils/location_validator.py : is_valid_nsw_location *)

\* the bounding box test without its longitude half
InBoundingBox_LatitudeOnly(latitude, longitude) ==
  /\ NSW_MIN_LAT <= latitude
  /\ latitude <= NSW_MAX_LAT

\* the bounding box test of lines 43-44
InBoundingBox(latitude, longitude) ==
  /\ NSW_MIN_LAT <= latitude
  /\ latitude <= NSW_MAX_LAT
  /\ NSW_MIN_LON <= longitude
  /\ longitude <= NSW_MAX_LON

\* location_info as initialised in lines 48-56
InitialLocationInfo(latitude, longitude) ==
  [lat |-> latitude, lon |-> longitude, state |-> "NSW",
   country |-> "Australia", area |-> "Unknown", locality |-> "Unknown",
   coast_distance |-> UnknownDistance]

\* `location and location.raw.get("address")` of line 63
HasAddress(outcome) ==
  outcome.kind = "address" /\ DOMAIN outcome.address # {}

\* location_info.update(...) of lines 66-69
EnrichedLocationInfo(info, address) ==
  [info EXCEPT
     !.area = Get(address, "state_district",
                  Get(address, "county", "Unknown NSW Region")),
     !.locality = Get(address, "city",
                      Get(address, "town", Get(address, "village", "Unknown")))]

\* the test of line 73
GeocodingDisagrees(address) ==
  /\ "nsw" \notin address_str(address)
  /\ "new south wales" \notin address_str(address)

\* the coastal test with a strict comparison
CoastalResult_Strict(latitude, longitude, info) ==
  LET coast_distance == find_distance_to_coast(latitude, longitude)
      is_coastal     == coast_distance * 100 < COASTAL_DISTANCE_KM * 1000
  IN  [fn |-> "is_valid_nsw_location", is_valid |-> is_coastal,
       info |-> [info EXCEPT !.coast_distance = coast_distance]]

\* the coastal test whose distance is not stored in location_info
CoastalResult_DistanceNotStored(latitude, longitude, info) ==
  LET coast_distance == find_distance_to_coast(latitude, longitude)
      is_coastal     == coast_distance * 100 <= COASTAL_DISTANCE_KM * 1000
  IN  [fn |-> "is_valid_nsw_location", is_valid |-> is_coastal, info |-> info]

\* lines 81-88: the coastal distance decides
CoastalResult(latitude, longitude, info) ==
  LET coast_distance == find_distance_to_coast(latitude, longitude)
      is_coastal     == coast_distance * 100 <= COASTAL_DISTANCE_KM * 1000
  IN  [fn |-> "is_valid_nsw_location", is_valid |-> is_coastal,
       info |-> [info EXCEPT !.coast_distance = coast_distance]]

\* lines 42-61: the call up to the reverse geocoding request
Call_is_valid_nsw_location(latitude, longitude) ==
  /\ pc = "idle"
  /\ lat' = latitude
  /\ lon' = longitude
  /\ geo' = NoGeocode
  /\ search' = NoResponse
  /\ weather' = NoResponse
  /\ UNCHANGED <<API_KEY, now>>
  /\ IF ~InBoundingBox(latitude, longitude)
     THEN /\ ret' = [fn |-> "is_valid_nsw_location", is_valid |-> FALSE,
                     info |-> [error |-> "Location is outside NSW boundaries"]]
          /\ requests' = <<>>
          /\ pc' = "returned"
     ELSE /\ ret' = NoReturn
          /\ requests' = << [url |-> "reverse", lat |-> latitude,
                             lon |-> longitude] >>
          /\ pc' = "reverse"

\* the result when the geocoding double check is left out
ResultAfterReverse_NoDoubleCheck(latitude, longitude, outcome) ==
  LET location_info == InitialLocationInfo(latitude, longitude)
  IN  IF HasAddress(outcome)
      THEN CoastalResult(latitude, longitude,
             EnrichedLocationInfo(location_info, outcome.address))
      ELSE CoastalResult(latitude, longitude, location_info)

\* the result when only GeocoderTimedOut is caught: GeocoderUnavailable
\* leaves the function as an exception
ResultAfterReverse_TimeoutOnly(latitude, longitude, outcome) ==
  LET location_info == InitialLocationInfo(latitude, longitude)
  IN  IF outcome.kind = "GeocoderUnavailable"
      THEN [fn |-> "is_valid_nsw_location", raised |-> "GeocoderUnavailable"]
      ELSE IF HasAddress(outcome)
      THEN IF GeocodingDisagrees(outcome.address)
           THEN [fn |-> "is_valid_nsw_location", is_valid |-> FALSE,
                 info |-> [error |->
                   "Location is outside NSW according to geocoding"]]
           ELSE CoastalResult(latitude, longitude,
                  EnrichedLocationInfo(location_info, outcome.address))
      ELSE CoastalResult(latitude, longitude, location_info)

\* lines 63-88: the result, given what the reverse geocoding call did; the
\* two exceptions of line 77 are passed over
ResultAfterReverse(latitude, longitude, outcome) ==
  LET location_info == InitialLocationInfo(latitude, longitude)
  IN  IF HasAddress(outcome)
      THEN IF GeocodingDisagrees(outcome.address)
           THEN [fn |-> "is_valid_nsw_location", is_valid |-> FALSE,
                 info |-> [error |->
                   "Location is outside NSW according to geocoding"]]
           ELSE CoastalResult(latitude, longitude,
                  EnrichedLocationInfo(location_info, outcome.address))
      ELSE CoastalResult(latitude, longitude, location_info)

\* lines 61-88: the reverse geocoding call returns or raises
ReverseGeocodeReturns(outcome) ==
  /\ pc = "reverse"
  /\ geo' = outcome
  /\ ret' = ResultAfterReverse(lat, lon, outcome)
  /\ pc' = "returned"
  /\ UNCHANGED <<lat, lon, requests, API_KEY, now, search, weather>>

----------------------------------------------------------------------------
(* utils/tidal_api.py : get_tidal_data, step by step *)

\* lines 29-46: the call at clock reading t, up to the station search
Call_get_tidal_data(latitude, longitude, t) ==
  /\ pc = "idle"
  /\ lat' = latitude
  /\ lon' = longitude
  /\ now' = t
  /\ geo' = NoGeocode
  /\ search' = NoResponse
  /\ weather' = NoResponse
  /\ UNCHANGED API_KEY
  /\ IF UseSimulation(API_KEY)
     THEN /\ ret' = [fn |-> "get_tidal_data",
                     tidal_data |->
                       generate_simulated_tidal_data(latitude, longitude, t)]
          /\ requests' = <<>>
          /\ pc' = "returned"
     ELSE /\ ret' = NoReturn
          /\ requests' = << [url |-> "search.json", lat |-> latitude,
                             lng |-> longitude] >>
          /\ pc' = "search"

\* lines 46-65: the station search is answered after e seconds
SearchResponds(response, e) ==
  /\ pc = "search"
  /\ search' = response
  /\ now' = now + e
  /\ IF RequestRaises(response) \/ StationLookupRaises(response.json)
        \/ Len(response.json.location) = 0
     THEN /\ ret' = [fn |-> "get_tidal_data", tidal_data |-> None]
          /\ pc' = "returned"
          /\ UNCHANGED requests
     ELSE /\ ret' = NoReturn
          /\ pc' = "weather"
          /\ requests' = Append(requests,
                           [url |-> "weather.json",
                            location_id |-> response.json.location[1].id,
                            startDate |-> Date(now')])
  /\ UNCHANGED <<lat, lon, geo, API_KEY, weather>>

\* lines 65-132: the station forecast request is answered after e seconds
WeatherResponds(response, e) ==
  /\ pc = "weather"
  /\ weather' = response
  /\ now' = now + e
  /\ ret' = [fn |-> "get_tidal_data",
             tidal_data |-> ResultAfterWeather(response, now')]
  /\ pc' = "returned"
  /\ UNCHANGED <<lat, lon, geo, requests, API_KEY, search>>

\* the caller takes the result and the call's frame is gone; the next call
\* may start
Return ==
  /\ pc = "returned"
  /\ pc' = "idle"
  /\ lat' = 0
  /\ lon' = 0
  /\ geo' = NoGeocode
  /\ requests' = <<>>
  /\ ret' = NoReturn
  /\ now' = NowOrigin
  /\ search' = NoResponse
  /\ weather' = NoResponse
  /\ UNCHANGED API_KEY

\* a function is called on its own, outside a script run of app.py
Direct == app.at = "none" /\ UNCHANGED appvars

Next ==
  \/ \E c \in Coordinates :
        Call_is_valid_nsw_location(c[1], c[2]) /\ Direct
  \/ \E outcome \in GeocodeOutcomes :
        ReverseGeocodeReturns(outcome) /\ Direct
  \/ \E c \in TidalCoordinates, t \in Nows :
        Call_get_tidal_data(c[1], c[2], t) /\ Direct
  \/ \E response \in SearchResponses, e \in Elapsed :
        SearchResponds(response, e) /\ Direct
  \/ \E response \in WeatherResponses, e \in Elapsed :
        WeatherResponds(response, e) /\ Direct
  \/ Return /\ Direct

Spec == Init /\ [][Next]_vars

----------------------------------------------------------------------------
(* utils/db_manager.py : the tables and save_location_data, save_tidal_data *)

\* The tables are sequences of rows in insertion order.  The columns filled
\* from the clock (last_queried, timestamp) are left out: no statement of
\* the two functions reads them.  Coordinates are micro-degrees, so the
\* 0.01 of line 71 is 10000.

\* What the engine does with an INSERT that names no id (lines 87, 118 and
\* 149) for a column declared `id INTEGER PRIMARY KEY` without a default
\* (lines 18, 32, 46): an engine with implicit row ids gives the row the
\* next id, which `SELECT last_insert_rowid()` then returns; an engine
\* without them rejects the row, the key being NULL.
InsertOutcomes == {"rowid", "ConstraintException"}

\* the id an engine with implicit row ids gives the next row of a table
NextRowId(rows) ==
  IF Len(rows) = 0 THEN 1
  ELSE 1 + CHOOSE m \in {rows[i].id : i \in 1..Len(rows)} :
             \A i \in 1..Len(rows) : rows[i].id <= m

\* the positions of the rows satisfying the WHERE clause of line 71
NearbyRows(rows, latitude, longitude) ==
  {i \in 1..Len(rows) : /\ Abs(rows[i].latitude - latitude) < 10000
                        /\ Abs(rows[i].longitude - longitude) < 10000}

\* the UPDATE of lines 78-82
UpdateQueryCount(rows, location_id, query_count) ==
  [i \in 1..Len(rows) |->
     IF rows[i].id = location_id
     THEN [rows[i] EXCEPT !.query_count = query_count]
     ELSE rows[i]]

\* the row of the INSERT of lines 86-95; query_count takes its DEFAULT 1
LocationRow(id, latitude, longitude, location_info) ==
  [id             |-> id,
   latitude       |-> latitude,
   longitude      |-> longitude,
   area           |-> Get(location_info, "area", "Unknown"),
   locality       |-> Get(location_info, "locality", "Unknown"),
   coast_distance |-> Get(location_info, "coast_distance", 0),
   query_count    |-> 1]

\* lines 67-99: the table after the call and what the call returns or
\* raises; `pick` is the row the SELECT with LIMIT 1 returns (0: none) and
\* `outcome` what the engine does with the INSERT
save_location_data(rows, latitude, longitude, location_info, pick, outcome) ==
  IF pick # 0
  THEN [locations |-> UpdateQueryCount(rows, rows[pick].id,
                                       rows[pick].query_count + 1),
        result    |-> [location_id |-> rows[pick].id]]
  ELSE IF outcome = "rowid"
  THEN [locations |-> Append(rows, LocationRow(NextRowId(rows), latitude,
                                               longitude, location_info)),
        result    |-> [location_id |-> NextRowId(rows)]]
  ELSE [locations |-> rows, result |-> [raised |-> outcome]]

\* the rows the SELECT of lines 69-73 may return: any one row that
\* satisfies the WHERE clause (LIMIT 1 without ORDER BY), or none
SelectOutcomes(rows, latitude, longitude) ==
  IF NearbyRows(rows, latitude, longitude) = {} THEN {0}
  ELSE NearbyRows(rows, latitude, longitude)

\* line 129: 'Simulated' if 'API_KEY' not in os.environ else 'API'
data_source(environ) ==
  IF "API_KEY" \notin environ THEN "Simulated" ELSE "API"

\* the row of the INSERT of lines 117-130
TidalRecordRow(id, location_id, tidal_data, source) ==
  LET current == Get(tidal_data, "current", <<>>)
  IN  [id             |-> id,
       location_id    |-> location_id,
       current_height |-> Get(current, "height", 0),
       current_status |-> Get(current, "status", "Unknown"),
       current_trend  |-> Get(current, "trend", "Unknown"),
       data_source    |-> source]

\* lines 136-158: the rows of tide_forecasts for a forecast; the time text
\* "%H:%M %d-%b" is parsed back with the year of the clock
ForecastRows(first_id, tidal_record_id, forecast, clock) ==
  [i \in 1..Len(forecast) |->
     [id              |-> first_id + i - 1,
      tidal_record_id |-> tidal_record_id,
      tide_type       |-> Get(forecast[i], "type", "Unknown"),
      tide_time       |-> [Y  |-> Date(clock) \div 365,
                           dB |-> forecast[i].time.dB,
                           H  |-> forecast[i].time.H,
                           M  |-> forecast[i].time.M],
      tide_height     |-> Get(forecast[i], "height", 0)]]

\* lines 112-160: the two tables after the call and what the call returns
\* or raises
save_tidal_data(records, forecasts, location_id, tidal_data, source, clock, outcome) ==
  IF outcome = "rowid"
  THEN [tidal_records  |-> Append(records,
                             TidalRecordRow(NextRowId(records), location_id,
                                            tidal_data, source)),
        tide_forecasts |-> forecasts \o
                             ForecastRows(NextRowId(forecasts),
                                          NextRowId(records),
                                          Get(tidal_data, "forecast", <<>>),
                                          clock),
        result         |-> [tidal_record_id |-> NextRowId(records)]]
  ELSE [tidal_records  |-> records,
        tide_forecasts |-> forecasts,
        result         |-> [raised |-> outcome]]

----------------------------------------------------------------------------
(* app.py : one script run, from the button to the two saves *)

\* the coordinates the two number inputs of lines 36-55 are given
AppCoordinates ==
  { <<-33865143, 151209900>>,   \* Sydney
    <<-33857643, 151209900>>,   \* 0.0075 degrees north of it
    <<-33850143, 151209900>>,   \* 0.015 degrees north of it
    <<-33000000, 146000000>> }  \* inland NSW

\* the clock readings at which the script run calls get_tidal_data
AppNows == {NowOrigin + 3 * 3600 + 5 * 60, NowOrigin + 20 * 3600 + 40 * 60}

\* what the services answer during a script run
AppGeocodeOutcomes ==
  { [kind |-> "address",
     address |-> [state |-> "NSW", county |-> "Camden", town |-> "Kiama"]],
    [kind |-> "address", address |-> [state |-> "Queensland"]],
    [kind |-> "GeocoderTimedOut"] }

AppSearchResponses ==
  { [kind |-> "ConnectionError"],
    [kind |-> "json", json |-> [location |-> << [id |-> 4950, name |-> "Sydney"] >>]] }

AppWeatherResponses ==
  { [kind |-> "HTTPError"],
    [kind |-> "json", json |-> [forecasts |-> [tides |-> [days |-> <<>>]]]],
    [kind |-> "json",
     json |-> TidesDocument(EntriesOf(<<"high", "low">>, FirstEntryTime))] }

\* the most calls of save_location_data in a behaviour
MaxSaves == 3

\* the test of line 76 left out: nothing counts as missing
Falsy_Never(tidal_data) == FALSE

\* `not tidal_data` of line 76: None and the empty dict are false
Falsy(tidal_data) == tidal_data = None \/ DOMAIN tidal_data = {}

\* lines 58-62: the button is pressed and is_valid_nsw_location is called
App_ButtonPressed(latitude, longitude) ==
  /\ app.at = "none"
  /\ saves < MaxSaves
  /\ Call_is_valid_nsw_location(latitude, longitude)
  /\ app' = [at |-> "is_valid_nsw_location",
             latitude |-> latitude, longitude |-> longitude]
  /\ UNCHANGED <<os_environ, dbvars>>

\* line 62: the result is bound to location_valid and location_info
App_Classified ==
  /\ app.at = "is_valid_nsw_location"
  /\ pc = "returned"
  /\ Return
  /\ app' = [at |-> "classified",
             latitude |-> app.latitude, longitude |-> app.longitude,
             location_valid |-> ret.is_valid, location_info |-> ret.info]
  /\ UNCHANGED <<os_environ, dbvars>>

\* lines 64-74: an invalid location ends the run with an error message; for
\* a valid one get_tidal_data is called, at clock reading t
App_AfterClassification(t) ==
  /\ app.at = "classified"
  /\ IF ~app.location_valid
     THEN /\ app' = NoRun
          /\ UNCHANGED callvars
     ELSE /\ Call_get_tidal_data(app.latitude, app.longitude, t)
          /\ app' = [app EXCEPT !.at = "get_tidal_data"]
  /\ UNCHANGED <<os_environ, dbvars>>

\* line 74: the result is bound to tidal_data
App_Fetched ==
  /\ app.at = "get_tidal_data"
  /\ pc = "returned"
  /\ Return
  /\ app' = [at |-> "fetched",
             latitude |-> app.latitude, longitude |-> app.longitude,
             location_valid |-> app.location_valid,
             location_info |-> app.location_info,
             tidal_data |-> ret.tidal_data]
  /\ UNCHANGED <<os_environ, dbvars>>

\* lines 76-80: without tidal data the run ends with an error message;
\* otherwise save_location_data is called, and an exception of it ends the
\* run
App_save_location_data(outcome) ==
  /\ app.at = "fetched"
  /\ IF Falsy(app.tidal_data)
     THEN /\ app' = NoRun
          /\ UNCHANGED dbvars
     ELSE \E pick \in SelectOutcomes(locations, app.latitude, app.longitude) :
          LET r == save_location_data(locations, app.latitude, app.longitude,
                                      app.location_info, pick, outcome)
          IN  /\ locations' = r.locations
              /\ saves' = saves + 1
              /\ app' = IF "raised" \in DOMAIN r.result
                        THEN NoRun
                        ELSE [at |-> "saved_location",
                              latitude |-> app.latitude,
                              longitude |-> app.longitude,
                              location_valid |-> app.location_valid,
                              location_info |-> app.location_info,
                              tidal_data |-> app.tidal_data,
                              location_id |-> r.result.location_id]
              /\ UNCHANGED <<tidal_records, tide_forecasts>>
  /\ UNCHANGED <<os_environ, callvars>>

\* line 81: save_tidal_data is called with the id of line 80; the rest of
\* the run renders the page
App_save_tidal_data(outcome) ==
  /\ app.at = "saved_location"
  /\ LET r == save_tidal_data(tidal_records, tide_forecasts, app.location_id,
                              app.tidal_data, data_source(os_environ), now,
                              outcome)
     IN  /\ tidal_records' = r.tidal_records
         /\ tide_forecasts' = r.tide_forecasts
  /\ app' = NoRun
  /\ UNCHANGED <<os_environ, callvars, locations, saves>>

\* the services answer while the script run waits
AppWaits == app.at # "none" /\ UNCHANGED appvars

AppNext ==
  \/ \E c \in AppCoordinates : App_ButtonPressed(c[1], c[2])
  \/ \E outcome \in AppGeocodeOutcomes :
        ReverseGeocodeReturns(outcome) /\ AppWaits
  \/ App_Classified
  \/ \E t \in AppNows : App_AfterClassification(t)
  \/ \E response \in AppSearchResponses, e \in Elapsed :
        SearchResponds(response, e) /\ AppWaits
  \/ \E response \in AppWeatherResponses, e \in Elapsed :
        WeatherResponds(response, e) /\ AppWaits
  \/ App_Fetched
  \/ \E outcome \in InsertOutcomes : App_save_location_data(outcome)
  \/ \E outcome \in InsertOutcomes : App_save_tidal_data(outcome)

AppSpec == Init /\ [][AppNext]_vars

----------------------------------------------------------------------------
(* The simulator over every minute of a day *)

\* the last minute of the day at which the simulator is called
MaxMinute == 1439

\* the clock readings of a day, one for every minute
SimNows == {NowOrigin + 60 * m : m \in 0..MaxMinute}

\* get_tidal_data is called without a credential, which is when line 33
\* runs generate_simulated_tidal_data
SimNext ==
  \/ \E c \in TidalCoordinates, t \in SimNows :
        API_KEY = "" /\ Call_get_tidal_data(c[1], c[2], t) /\ Direct
  \/ Return /\ Direct

SimSpec == Init /\ [][SimNext]_vars

----------------------------------------------------------------------------
(* Properties of is_valid_nsw_location *)

\* a call of is_valid_nsw_location has returned a result
Classified ==
  /\ pc = "returned"
  /\ ret.fn = "is_valid_nsw_location"
  /\ "raised" \notin DOMAIN ret

\* the coordinate of the call lies outside the region box
OutsideBox ==
  \/ lat < -37500000
  \/ lat > -28000000
  \/ lon < 140999922
  \/ lon > 153638747

\* the minimum distance to the reference points is at most 20 km (200 hm)
WithinCoastalThreshold == find_distance_to_coast(lat, lon) <= 200

\* the reverse geocoding call returned an address that names the region
\* by neither token
GeocodingDisagreed ==
  /\ geo.kind = "address"
  /\ DOMAIN geo.address # {}
  /\ address_str(geo.address) \cap {"nsw", "new south wales"} = {}

\* the reverse geocoding call raised GeocoderTimedOut or GeocoderUnavailable
GeocodingFailed == geo.kind \in {"GeocoderTimedOut", "GeocoderUnavailable"}

BoundaryError == [error |-> "Location is outside NSW boundaries"]

GeocodeDisagreementError ==
  [error |-> "Location is outside NSW according to geocoding"]

\* C1: a coordinate outside the bounding box is rejected with the boundary
\* error, and the reverse geocoding service is never called for it
C1_OutsideBoxRejected ==
  /\ pc = "reverse" => ~OutsideBox
  /\ (Classified /\ OutsideBox) =>
        /\ ret.is_valid = FALSE
        /\ ret.info = BoundaryError
        /\ requests = <<>>
        /\ geo = NoGeocode

\* the spec's example (-10.0, 145.0) and an out-of-range longitude have
\* both been rejected
C1_Witness ==
  /\ Classified
  /\ OutsideBox
  /\ NSW_MIN_LAT <= lat
  /\ lat <= NSW_MAX_LAT
  /\ ret.is_valid = FALSE

\* C2: the result is valid exactly when the coordinate is in the box, the
\* geocoding result did not disagree and the coast is within 20 km
C2_ValidIff ==
  Classified =>
    (ret.is_valid <=>
       (~OutsideBox /\ ~GeocodingDisagreed /\ WithinCoastalThreshold))

\* a coordinate exactly 20 km from a reference point was accepted
C2_Witness ==
  /\ Classified
  /\ ret.is_valid
  /\ find_distance_to_coast(lat, lon) = 200

\* C3: an address naming the region by neither token overrides the box:
\* the result is invalid with the geocoding error, however near the coast
C3_DisagreementOverrides ==
  (Classified /\ GeocodingDisagreed) =>
     /\ ret.is_valid = FALSE
     /\ ret.info = GeocodeDisagreementError

\* the geocoder disagreed for a coordinate in the box and within 20 km
C3_Witness ==
  /\ Classified
  /\ GeocodingDisagreed
  /\ ~OutsideBox
  /\ WithinCoastalThreshold
  /\ ret.is_valid = FALSE

\* C4: when the reverse geocoding call times out or is unavailable the call
\* still returns, without an error, with area and locality "Unknown" and
\* validity decided by the coastal distance alone
C4_GeocodingFailureRecovered ==
  (pc = "returned" /\ GeocodingFailed) =>
     /\ ret.fn = "is_valid_nsw_location"
     /\ "raised" \notin DOMAIN ret
     /\ "error" \notin DOMAIN ret.info
     /\ ret.info.area = "Unknown"
     /\ ret.info.locality = "Unknown"
     /\ ret.is_valid = WithinCoastalThreshold

\* the geocoder was unavailable and the call returned valid
C4_Witness ==
  /\ Classified
  /\ geo.kind = "GeocoderUnavailable"
  /\ ret.is_valid

\* C5, as claimed: every invalid result has an error field
C5_InvalidHasError ==
  (Classified /\ ~ret.is_valid) => "error" \in DOMAIN ret.info

\* C6, as claimed: in the box and farther than 20 km, whatever the geocoder
\* did, the result is invalid with a computed coast_distance above 20 km
C6_FarFromCoast_Claimed ==
  (Classified /\ ~OutsideBox /\ ~WithinCoastalThreshold) =>
     /\ ret.is_valid = FALSE
     /\ "coast_distance" \in DOMAIN ret.info
     /\ ret.info.coast_distance # UnknownDistance
     /\ ret.info.coast_distance * 100 > 20 * 1000

\* C6, amended: in the box and farther than 20 km the result is invalid;
\* it has a computed coast_distance above 20 km unless the geocoder
\* disagreed, and then it is the geocoding error without a coast_distance
C6_FarFromCoast ==
  (Classified /\ ~OutsideBox /\ ~WithinCoastalThreshold) =>
     /\ ret.is_valid = FALSE
     /\ ~GeocodingDisagreed =>
          /\ "coast_distance" \in DOMAIN ret.info
          /\ ret.info.coast_distance # UnknownDistance
          /\ ret.info.coast_distance * 100 > 20 * 1000
     /\ GeocodingDisagreed => ret.info = GeocodeDisagreementError

\* an inland coordinate was rejected with its distance, the geocoder agreeing
C6_Witness ==
  /\ Classified
  /\ ~OutsideBox
  /\ ~WithinCoastalThreshold
  /\ geo.kind = "address"
  /\ ~GeocodingDisagreed
  /\ ret.is_valid = FALSE
  /\ ret.info.coast_distance > 200

----------------------------------------------------------------------------
(* Properties of get_tidal_data and generate_simulated_tidal_data *)

\* a call of get_tidal_data has returned
Fetched == pc = "returned" /\ ret.fn = "get_tidal_data"

\* C7: without a credential get_tidal_data issues no request and returns the
\* simulator's snapshot for the call's coordinate and clock reading, never
\* None, with current, forecast and chart_data present
C7_NoCredentialSimulates ==
  /\ (pc \in {"search", "weather"}) => API_KEY # ""
  /\ (Fetched /\ API_KEY = "") =>
        /\ ret.tidal_data # None
        /\ requests = <<>>
        /\ search = NoResponse
        /\ weather = NoResponse
        /\ ret.tidal_data = generate_simulated_tidal_data(lat, lon, now)
        /\ DOMAIN ret.tidal_data = {"current", "forecast", "chart_data"}
        /\ DOMAIN ret.tidal_data.current =
             {"height", "status", "trend", "timestamp"}
        /\ Len(ret.tidal_data.forecast) > 0
        /\ Len(ret.tidal_data.chart_data) > 0

\* a snapshot was returned without a credential
C7_Witness ==
  /\ Fetched
  /\ API_KEY = ""
  /\ ret.tidal_data # None
  /\ requests = <<>>

\* either request failed in transport, by its HTTP status or in parsing
SearchRequestFailed == search.kind \in {"ConnectionError", "HTTPError", "body"}

WeatherRequestFailed == weather.kind \in {"ConnectionError", "HTTPError", "body"}

\* the station search gave no usable station: no list, an empty list, or a
\* first station without id
NoStation ==
  /\ search.kind = "json"
  /\ \/ "location" \notin DOMAIN search.json
     \/ Len(search.json.location) = 0
     \/ "id" \notin DOMAIN search.json.location[1]

\* the days of the forecast document received
DaysReceived ==
  IF "forecasts" \in DOMAIN weather.json
     /\ "tides" \in DOMAIN weather.json.forecasts
     /\ "days" \in DOMAIN weather.json.forecasts.tides
  THEN weather.json.forecasts.tides.days
  ELSE <<>>

\* the forecast document has no first day
MissingDays == weather.kind = "json" /\ Len(DaysReceived) = 0

\* the first day of the forecast document has no entries
MissingEntries ==
  /\ weather.kind = "json"
  /\ Len(DaysReceived) > 0
  /\ "entries" \notin DOMAIN DaysReceived[1]

\* some entry or point of the forecast document has no readable dateTime
UnreadableDateTime ==
  /\ weather.kind = "json"
  /\ \E d \in 1..Len(DaysReceived) : \E key \in {"entries", "points"} :
        /\ key \in DOMAIN DaysReceived[d]
        /\ \E i \in 1..Len(DaysReceived[d][key]) :
              \/ "dateTime" \notin DOMAIN DaysReceived[d][key][i]
              \/ "t" \notin DOMAIN DaysReceived[d][key][i].dateTime

\* the station forecast request is issued second, and only after a station
\* search that returned a non-empty station list
ForecastRequestAfterStation ==
  \A i \in 1..Len(requests) :
     requests[i].url = "weather.json" =>
        /\ i = 2
        /\ requests[1].url = "search.json"
        /\ search.kind = "json"
        /\ "location" \in DOMAIN search.json
        /\ Len(search.json.location) > 0
        /\ requests[i].location_id = search.json.location[1].id

\* C8, as claimed: with a credential every failure of the lookup, missing
\* entries included, makes get_tidal_data return None
C8_EveryFailureNull_Claimed ==
  (Fetched /\ API_KEY # ""
   /\ (SearchRequestFailed \/ NoStation \/ WeatherRequestFailed
       \/ MissingDays \/ MissingEntries \/ UnreadableDateTime)) =>
     ret.tidal_data = None

\* C8, amended: with a credential a failed request, a missing station, a
\* forecast without a first day or an unreadable dateTime makes
\* get_tidal_data return None and nothing is raised; a first day without
\* entries gives a snapshot with an empty forecast; the forecast request
\* follows a non-empty station list
C8_EveryFailureNull ==
  /\ ForecastRequestAfterStation
  /\ Fetched => "raised" \notin DOMAIN ret.tidal_data
  /\ (Fetched /\ API_KEY # ""
      /\ (SearchRequestFailed \/ NoStation \/ WeatherRequestFailed
          \/ MissingDays \/ UnreadableDateTime)) =>
        ret.tidal_data = None
  /\ (Fetched /\ API_KEY # "" /\ MissingEntries /\ ~UnreadableDateTime) =>
        /\ ret.tidal_data # None
        /\ ret.tidal_data.forecast = <<>>

\* a forecast document without days arrived after a good station search,
\* and None was returned
C8_Witness ==
  /\ Fetched
  /\ API_KEY # ""
  /\ Len(requests) = 2
  /\ MissingDays
  /\ ret.tidal_data = None

\* C9: the simulated chart has 96 points, point i at now + 30 i minutes,
\* tagged High or Low at every 12th index, alternating from High, and
\* Normal elsewhere
C9_ChartSeries ==
  (Fetched /\ API_KEY = "") =>
     LET chart == ret.tidal_data.chart_data
     IN  /\ Len(chart) = 96
         /\ \A i \in 0..95 :
               /\ chart[i + 1].time = now + 30 * 60 * i
               /\ (i % 12 = 0 /\ (i \div 12) % 2 = 0) => chart[i + 1].type = "High"
               /\ (i % 12 = 0 /\ (i \div 12) % 2 = 1) => chart[i + 1].type = "Low"
               /\ i % 12 # 0 => chart[i + 1].type = "Normal"
         /\ \A i \in 1..95 : chart[i].time < chart[i + 1].time

\* a simulated chart was returned for a call late in the day, so that its
\* points run over two midnights
C9_Witness ==
  /\ Fetched
  /\ API_KEY = ""
  /\ Hour(now) >= 12
  /\ Len(ret.tidal_data.chart_data) = 96
  /\ ret.tidal_data.chart_data[13].type = "Low"
  /\ Date(ret.tidal_data.chart_data[96].time) = Date(now) + 2

\* no two consecutive events of a forecast have the same type
Alternates(forecast) ==
  \A i \in 1..(Len(forecast) - 1) : forecast[i].type # forecast[i + 1].type

\* C10, as claimed: every snapshot returned, simulated or from the provider,
\* has at most 4 forecast events of strictly alternating type
C10_ForecastAlternates_Claimed ==
  (Fetched /\ ret.tidal_data # None) =>
     /\ Len(ret.tidal_data.forecast) <= 4
     /\ Alternates(ret.tidal_data.forecast)

\* the "entries" of the first day of the forecast document received
FirstDayEntries ==
  IF "entries" \in DOMAIN DaysReceived[1] THEN DaysReceived[1].entries ELSE <<>>

\* entry i of the first day is a high tide for get_tidal_data
IsHighEntry(i) ==
  "type" \in DOMAIN FirstDayEntries[i] /\ FirstDayEntries[i].type = "high"

\* C10, amended: every snapshot returned has at most 4 forecast events; a
\* simulated one has exactly 4 of strictly alternating type; one from the
\* provider repeats a type exactly where the provider's entries do
C10_ForecastAlternates ==
  (Fetched /\ ret.tidal_data # None) =>
     LET forecast == ret.tidal_data.forecast
     IN  /\ Len(forecast) <= 4
         /\ API_KEY = "" => (Len(forecast) = 4 /\ Alternates(forecast))
         /\ API_KEY # "" =>
              /\ Len(forecast) <= Len(FirstDayEntries)
              /\ Len(FirstDayEntries) >= 4 => Len(forecast) = 4
              /\ \A i \in 1..(Len(forecast) - 1) :
                    (forecast[i].type = forecast[i + 1].type)
                       <=> (IsHighEntry(i) <=> IsHighEntry(i + 1))

\* a provider snapshot of more than 4 alternating entries was cut to 4
\* events that alternate
C10_Witness ==
  /\ Fetched
  /\ ret.tidal_data # None
  /\ API_KEY # ""
  /\ Len(FirstDayEntries) > 4
  /\ Len(ret.tidal_data.forecast) = 4
  /\ Alternates(ret.tidal_data.forecast)

----------------------------------------------------------------------------
(* Properties of the script run of app.py *)

\* the script run has called get_tidal_data and not yet bound its result
InTidalCall == app.at = "get_tidal_data"

\* the position of the run is consistent with its locals and with the call
\* in progress: classification comes first, get_tidal_data follows a valid
\* classification of the same coordinate, and the saves follow a snapshot
RunInOrder ==
  /\ pc = "reverse" => app.at = "is_valid_nsw_location"
  /\ pc \in {"search", "weather"} => InTidalCall
  /\ app.at = "is_valid_nsw_location" =>
        /\ ret = NoReturn \/ ret.fn = "is_valid_nsw_location"
        /\ lat = app.latitude /\ lon = app.longitude
  /\ InTidalCall =>
        /\ app.location_valid
        /\ ret = NoReturn \/ ret.fn = "get_tidal_data"
        /\ lat = app.latitude /\ lon = app.longitude
  /\ app.at = "saved_location" =>
        /\ app.location_valid
        /\ app.tidal_data # None
        /\ \E i \in 1..Len(locations) :
              /\ locations[i].id = app.location_id
              /\ Abs(locations[i].latitude - app.latitude) < 10000
              /\ Abs(locations[i].longitude - app.longitude) < 10000

\* a step that calls save_location_data, and one that calls save_tidal_data
\* and writes a record
LocationSaved == saves' # saves \/ locations' # locations

TidalSaved == tidal_records' # tidal_records \/ tide_forecasts' # tide_forecasts

\* the persistence calls happen only after a valid classification and a
\* snapshot, save_location_data before save_tidal_data, and the record
\* written carries the id that save_location_data returned
SavesGuarded ==
  /\ LocationSaved =>
        /\ app.at = "fetched"
        /\ app.location_valid
        /\ app.tidal_data # None
        /\ ~TidalSaved
  /\ TidalSaved =>
        /\ app.at = "saved_location"
        /\ ~LocationSaved
        /\ Len(tidal_records') = Len(tidal_records) + 1
        /\ tidal_records'[Len(tidal_records')].location_id = app.location_id
        /\ \A i \in 1..Len(tidal_records) : tidal_records'[i] = tidal_records[i]

\* C12: in a script run classification runs first, get_tidal_data is called
\* only for a location classified valid, save_location_data and then
\* save_tidal_data only for a snapshot that is not None, save_tidal_data
\* with the id save_location_data returned; an invalid location or a None
\* snapshot causes no persistence call
C12_FlowInOrder == []RunInOrder /\ [][SavesGuarded]_vars

\* a run has saved a location and the record of its snapshot, and a later
\* run is past a classification
C12_Witness ==
  /\ Len(locations) >= 1
  /\ Len(tidal_records) >= 1
  /\ tidal_records[1].location_id = locations[1].id
  /\ app.at = "classified"
  /\ ~app.location_valid

----------------------------------------------------------------------------
(* Properties of the simulated current tide, forecast and chart *)

\* a simulated snapshot has been returned
Simulated == Fetched /\ API_KEY = ""

\* (hour + minute / 60) mod 12.42 for the clock reading of the call, in
\* tenths of a minute: 12.42 h = 7452
CyclePosition == (Hour(now) * 600 + Minute(now) * 10) % 7452

\* C13: the simulated status is "Near High" when hour_in_cycle lies between
\* 0.8 and 1.2 half periods, otherwise "Mid" when hour_in_cycle / period
\* lies in [0.3, 0.7), otherwise "Near Low"
C13_StatusOfCycle ==
  Simulated =>
    LET c        == CyclePosition
        nearHigh == 10 * c > 8 * 3726 /\ 10 * c < 12 * 3726
        mid      == 10 * c >= 3 * 7452 /\ 10 * c < 7 * 7452
    IN  /\ ret.tidal_data.current.status \in {"Near High", "Mid", "Near Low"}
        /\ ret.tidal_data.current.status =
             IF nearHigh THEN "Near High"
             ELSE IF mid THEN "Mid" ELSE "Near Low"

\* the status is "Mid" in the afternoon, the cycle having wrapped, within a
\* minute above 0.6 of the half period
C13_Witness ==
  /\ Simulated
  /\ Hour(now) >= 13
  /\ 10 * CyclePosition > 12 * 3726
  /\ 10 * CyclePosition < 12 * 3726 + 100
  /\ ret.tidal_data.current.status = "Mid"

\* amplitude = 0.8 + (|latitude| mod 10) / 50 for the latitude of the
\* call, in 1e-5 m
ClaimedAmplitude ==
  80000 + ((IF lat < 0 THEN -lat ELSE lat) % 10000000) \div 500

\* baseline + amplitude * (1/2 - 2 h / period) when rising and
\* baseline + amplitude * (2 h / period - 1/2) when falling, in 1e-5 m
ClaimedHeight ==
  LET c == CyclePosition
  IN  IF 2 * c < 7452
      THEN 150000 + RoundDivSigned(ClaimedAmplitude * (3726 - 2 * c), 7452)
      ELSE 150000 + RoundDivSigned(ClaimedAmplitude * (2 * c - 3726), 7452)

\* the height of the chart point at the instant of the call: the sine value
SineHeight == ret.tidal_data.chart_data[1].height

ClaimedToNext ==
  IF 2 * CyclePosition < 7452 THEN 3726 - CyclePosition
  ELSE 7452 - CyclePosition

\* the minutes from the start of the year to a forecast time "%H:%M %d-%b"
MinuteOfYear(time) == (time.dB * 24 + time.H) * 60 + time.M

\* C15: the simulated forecast has exactly 4 events; the first is Low if the
\* trend is Rising and High otherwise, at now + hours_to_next with
\* 0 < hours_to_next <= period / 2; event k is k half periods after the
\* first, so the times increase strictly; every height is the baseline plus
\* the amplitude for High and minus the amplitude for Low
C15_ForecastEvents ==
  Simulated =>
    LET forecast == ret.tidal_data.forecast
        first    == now + 6 * ClaimedToNext
    IN  /\ Len(forecast) = 4
        /\ forecast[1].type =
             IF ret.tidal_data.current.trend = "Rising" THEN "Low" ELSE "High"
        /\ 0 < ClaimedToNext /\ ClaimedToNext <= 3726
        /\ \A k \in 0..3 :
              LET at == first + k * 22356
              IN  /\ forecast[k + 1].time.H = (at % 86400) \div 3600
                  /\ forecast[k + 1].time.M = (at % 3600) \div 60
                  /\ forecast[k + 1].time.dB = (at \div 86400) % 365
        /\ \A k \in 1..3 :
              MinuteOfYear(forecast[k].time) < MinuteOfYear(forecast[k + 1].time)
        /\ \A k \in 1..4 :
              /\ forecast[k].type \in {"High", "Low"}
              /\ forecast[k].type = "High" =>
                    forecast[k].height = round2(150000 + ClaimedAmplitude)
              /\ forecast[k].type = "Low" =>
                    forecast[k].height = round2(150000 - ClaimedAmplitude)

\* late in the evening, falling: the first event is the High after midnight
C15_Witness ==
  /\ Simulated
  /\ Hour(now) = 23
  /\ ret.tidal_data.current.trend = "Falling"
  /\ ret.tidal_data.forecast[1].type = "High"
  /\ ret.tidal_data.forecast[1].time.dB = Date(now) + 1
  /\ ret.tidal_data.forecast[4].type = "Low"

\* the positions of the chart points tagged High or Low
Tagged(chart) == {i \in 1..Len(chart) : chart[i].type \in {"High", "Low"}}

\* C16, as claimed: consecutive tagged points of the simulated chart are
\* half a tidal period, 6.21 hours or 22356 seconds, apart, which is the
\* spacing of the forecast events
C16_TagSpacing ==
  Simulated =>
    LET chart == ret.tidal_data.chart_data
    IN  \A i, j \in Tagged(chart) :
           (i < j /\ \A k \in Tagged(chart) : ~(i < k /\ k < j)) =>
              chart[j].time - chart[i].time = 22356

----------------------------------------------------------------------------
(* Properties of save_tidal_data *)

\* C17, as claimed: the data_source of every record save_tidal_data wrote is
\* 'Simulated' exactly when get_tidal_data took the simulator branch (no
\* provider credential) and 'API' exactly when it took the provider branch
C17_SourceMatchesBranch ==
  \A i \in 1..Len(tidal_records) :
     /\ tidal_records[i].data_source = "Simulated" <=> API_KEY = ""
     /\ tidal_records[i].data_source = "API" <=> API_KEY # ""

----------------------------------------------------------------------------
(* Properties of the simulated current height *)

\* the simulated current tide d minutes after the call, same coordinate
CurrentAfter(d) ==
  generate_simulated_tidal_data(lat, lon, now + 60 * d).current

\* from the call to d minutes later hour_in_cycle advances without wrapping
\* and the trend stays what it is
SameTrendInterval(d) ==
  /\ \A e \in 1..d : hour_in_cycle(now + 60 * (e - 1)) < hour_in_cycle(now + 60 * e)
  /\ \A e \in 1..d : CurrentAfter(e).trend = ret.tidal_data.current.trend

\* C18, as claimed: over an interval in which hour_in_cycle advances without
\* wrapping, the current height does not decrease while the trend stays
\* "Rising" and does not increase while it stays "Falling"
C18_TrendAgreesWithHeight ==
  Simulated =>
    \A d \in {1, 10, 60} :
       SameTrendInterval(d) =>
          /\ ret.tidal_data.current.trend = "Rising" =>
                ret.tidal_data.current.height <= CurrentAfter(d).height
          /\ ret.tidal_data.current.trend = "Falling" =>
                ret.tidal_data.current.height >= CurrentAfter(d).height

\* the forecast extremes of the snapshot: the heights of its Low and High
\* events
ForecastLow ==
  CHOOSE h \in {ret.tidal_data.forecast[k].height : k \in 1..4} :
     \A k \in 1..4 : h <= ret.tidal_data.forecast[k].height

ForecastHigh ==
  CHOOSE h \in {ret.tidal_data.forecast[k].height : k \in 1..4} :
     \A k \in 1..4 : h >= ret.tidal_data.forecast[k].height

\* C19, as claimed: the simulated current height lies between the forecast
\* Low height, baseline - amplitude, and the forecast High height,
\* baseline + amplitude, of the same snapshot
C19_HeightWithinExtremes ==
  Simulated =>
    /\ ForecastLow = round2(150000 - ClaimedAmplitude)
    /\ ForecastHigh = round2(150000 + ClaimedAmplitude)
    /\ ForecastLow <= ret.tidal_data.current.height
    /\ ret.tidal_data.current.height <= ForecastHigh

----------------------------------------------------------------------------
(* Properties of save_location_data *)

\* the sum of query_count over the first n rows
RECURSIVE SumQueryCount(_, _)
SumQueryCount(rows, n) ==
  IF n = 0 THEN 0 ELSE rows[n].query_count + SumQueryCount(rows, n - 1)

\* (a) no two stored locations are less than 0.01 degrees apart in both
\* latitude and longitude
LocationsApart ==
  \A i, j \in 1..Len(locations) :
     i # j => ~ /\ Abs(locations[i].latitude - locations[j].latitude) < 10000
                /\ Abs(locations[i].longitude - locations[j].longitude) < 10000

\* (c) the query counts add up to the number of calls made
CountsAddUp == SumQueryCount(locations, Len(locations)) = saves

\* (b) a call inserts exactly one row with query_count 1, or adds 1 to the
\* query_count of exactly one row; every other row and column is unchanged
InsertsOrIncrements ==
  \/ /\ Len(locations') = Len(locations) + 1
     /\ locations'[Len(locations')].query_count = 1
     /\ \A i \in 1..Len(locations) : locations'[i] = locations[i]
  \/ /\ Len(locations') = Len(locations)
     /\ \E k \in 1..Len(locations) :
           /\ locations'[k] =
                [locations[k] EXCEPT !.query_count = locations[k].query_count + 1]
           /\ \A i \in 1..Len(locations) : i # k => locations'[i] = locations[i]

\* C20, as claimed: from an empty table, after any calls of
\* save_location_data (a) and (c) hold, and every call is as (b) says
C20_LocationsTable ==
  [](LocationsApart /\ CountsAddUp)
  /\ [][saves' # saves => InsertsOrIncrements]_vars

====
